---------------------------- MODULE Spec2Model ----------------------------
(***************************************************************************)
(* ClientGeoHub: the debounced location search (EnhancedLocationSearch)    *)
(* and the dashboard (App / SimpleMapWithSearch) over the hosted document  *)
(* store, as state machines.                                               *)
(*                                                                         *)
(*   SearchSpec  the search controller of a mounted dashboard              *)
(*   LiveSpec    the shell, the session and the live query                 *)
(*   DashSpec    the handlers of one dashboard, the form and the store     *)
(*   FormSpec    the form over several submissions                         *)
(*   FrameSpec   the search controller beside the live query               *)
(*   LoginSpec   the login page                                            *)
(***************************************************************************)
EXTENDS Integers, Sequences, FiniteSets, TLC

VARIABLES
    \* ---- EnhancedLocationSearch (src/src/App.jsx 148-279) ----
    query,              \* useState('')     text of the input field
    suggestions,        \* useState([])     sequence of suggestions
    selectedPosition,   \* useState(null)   <<lat, lon>>, or <<>> for null
    selectedName,       \* useState('')
    isExpanded,         \* useState(false)
    isLoading,          \* useState(false)
    error,              \* useState('')
    apiProvider,        \* useState('photon')
    showSettings,       \* useState(false)
    abortControllerRef, \* useRef(null): id of the current controller, 0 = null
    aborted,            \* ids of the controllers on which abort() was called
    debouncedQuery,     \* useDebounce: debouncedValue
    timer,              \* useDebounce: a setTimeout is pending (for `query`)
    inflight,           \* provider calls awaiting their response
    nextId,             \* id of the next lookup (number issued so far + 1)
    \* history of the search controller (written, never read by the actions)
    burstApplied,       \* resolutions applied since the controller was last idle
    lastWriter,         \* id of the lookup whose resolution is displayed, 0 = none
    shownFor,           \* the lookup whose answer the suggestion list holds
    served,             \* text of the last lookup issued, "" once the list was wiped
    lastOutcome,        \* what the lookup that settled last settled with
    idleSince,          \* "clear" / "select" since the last such action, "none"
                        \* once the user changed the input text after it
    \* ---- identity provider and App (src/src/App.jsx 118-143) ----
    authUser,           \* auth.currentUser: an email, or Null
    authNotify,         \* an onAuthStateChanged notification is to be delivered
    user,               \* useState(null)   email of the user object, or Null
    appLoading,         \* useState(true)
    \* ---- SimpleMapWithSearch (src/src/App.jsx 636-949) ----
    inst,               \* number of dashboard instances mounted so far
    markers,            \* useState([...demo records])
    showForm,           \* useState(false)
    formLatLng,         \* useState(null)   <<lat, lng>>, or <<>> for null
    formData,           \* useState({site_name:'', ...})
    search,             \* useState('')     sidebar filter text
    editMode,           \* useState(false)
    editingId,          \* useState(null)
    selectedMarkerIdx,  \* useState(null)   1-based index; 0 for null
    popupTimers,        \* the pending setTimeout(openPopup, 400): the index each
                        \* will use, and (history) the row that was clicked
    openPopup,          \* index of the marker whose popup is open; 0 for none
    mapView,            \* the view last commanded on mapRef.current
    \* LoginPage
    mode,               \* useState('login')
    loginEmail,         \* email: useState('')
    password,           \* useState('')
    confirmPassword,    \* useState('')
    fullName,           \* useState('')
    loading,            \* useState(false)
    authCall,           \* the call to the identity provider that is awaited
    alertMsg,           \* the text of the last alert()
    \* ---- the document store (firebase/firestore) ----
    store,              \* documents of the clients collection
    nextDocId,          \* identifier the store assigns to the next document
    listeners,          \* live queries registered by onSnapshot
    pendingWrites,      \* addDoc / updateDoc / deleteDoc calls awaiting the store
    clock,              \* the last reading of the wall clock by new Date()
    typed,              \* fields the user changed since the form was opened
    \* history of the dashboard (written, never read by the actions)
    awaiting,           \* creates acknowledged, next snapshot not yet delivered
    missed,             \* a snapshot lacked a create it was awaited in
    formOrigin,         \* what opened the form last: "click", "edit" or "none"
    notified,           \* a session notification has reached App's callback
    creates             \* addDoc calls since the form was last opened

searchVars == <<query, suggestions, selectedPosition, selectedName, isExpanded,
                isLoading, error, apiProvider, showSettings, abortControllerRef,
                aborted, debouncedQuery, timer, inflight, nextId,
                burstApplied, lastWriter, shownFor, served, lastOutcome,
                idleSince>>

shellVars == <<authUser, authNotify, user, appLoading>>

dashVars == <<inst, markers, showForm, formLatLng, formData, search, editMode,
              editingId>>

storeVars == <<store, nextDocId, listeners, pendingWrites, clock, typed>>

sideVars == <<selectedMarkerIdx, popupTimers, openPopup, mapView>>

loginVars == <<mode, loginEmail, password, confirmPassword, fullName, loading>>

callVars == <<authCall, alertMsg>>

historyVars == <<awaiting, missed, formOrigin, notified, creates>>

vars == <<searchVars, shellVars, dashVars, sideVars, storeVars, historyVars,
          loginVars, callVars>>

\* null and undefined where the value is otherwise a string; a null coordinate
\* is the empty tuple.
Null == "null"
Undefined == "undefined"
NoPosition == <<>>

(***************************************************************************)
(* Bounds of the model.                                                    *)
(***************************************************************************)
MaxLookups == 2
MaxMounts == 2
MaxClock == 2
MaxPending == 1
MaxRows == 1
MaxTyped == 1
MaxTimers == 1
MaxFormClock == 3
MaxFormPending == 2

(***************************************************************************)
(* Program constants.                                                      *)
(***************************************************************************)
MIN_QUERY_LEN == 3
LIMIT == 5
SELECT_ZOOM == 14
FOCUS_ZOOM == 13
SIDEBAR_WIDTH == 350
INITIAL_ZOOM == 4
NO_RESULTS == "No results found"
SEARCH_FAILED == "Search failed. Please try again."
Providers == {"nominatim", "photon"}

\* Texts the user types into the search field.
Texts == {"", "ab", "abc", "abcd"}

(***************************************************************************)
(* The two geocoders' raw responses and their normalisation.               *)
(***************************************************************************)
\* parseFloat on the coordinate strings Nominatim returns; NaN stands for the
\* result on a string that is no number.
NaN == -999999

ParseFloat(s) ==
    CASE s = "39" -> 39
      [] s = "83" -> 83
      [] s = "41" -> 41
      [] s = "12" -> 12
      [] OTHER -> NaN

NomItem1 == [place_id |-> 101, display_name |-> "Springfield, Ohio",
             lat |-> "39", lon |-> "83", type |-> "city"]
NomItem2 == [place_id |-> 102, display_name |-> "Rome",
             lat |-> "41", lon |-> "12", type |-> "city"]
\* The last one is the answer of a server that ignores the request's limit.
NominatimResponses ==
    {<<>>, <<NomItem1>>, <<NomItem1, NomItem2>>,
     [i \in 1..(LIMIT + 1) |-> NomItem1]}

\* GeoJSON features: coordinates are <<lon, lat>>; a missing city or country is "".
PhotonItem1 == [properties |-> [osm_id |-> 201, name |-> "Springfield",
                                city |-> "", country |-> "USA", type |-> "city"],
                geometry |-> [coordinates |-> <<83, 39>>]]
PhotonItem2 == [properties |-> [osm_id |-> 202, name |-> "Ur",
                                city |-> "", country |-> "", type |-> "locality"],
                geometry |-> [coordinates |-> <<46, 30>>]]
PhotonResponses == {<<>>, <<PhotonItem1>>, <<PhotonItem1, PhotonItem2>>}

NominatimNormalize(item) ==
    [id |-> item.place_id, display_name |-> item.display_name,
     lat |-> ParseFloat(item.lat), lon |-> ParseFloat(item.lon),
     type |-> item.type]

PhotonNormalize(item) ==
    [id |-> item.properties.osm_id,
     display_name |-> item.properties.name
                      \o (IF item.properties.city # ""
                          THEN ", " \o item.properties.city ELSE "")
                      \o (IF item.properties.country # ""
                          THEN ", " \o item.properties.country ELSE ""),
     lat |-> item.geometry.coordinates[2],
     lon |-> item.geometry.coordinates[1],
     type |-> item.properties.type]

\* apis[provider].search on a response that arrived: data.map / data.features.map
ApiSearch(provider, data) ==
    IF provider = "nominatim"
    THEN [i \in 1..Len(data) |-> NominatimNormalize(data[i])]
    ELSE [i \in 1..Len(data) |-> PhotonNormalize(data[i])]

\* The suggestion list holds no lookup's answer.
NoLookup == [id |-> 0, q |-> "", provider |-> ""]

\* No lookup has settled yet.
NoOutcome == [kind |-> "none", name |-> "", data |-> <<>>]

\* What the promise of apis[provider].search can settle with.  fetch is called
\* without the controller's signal, so abort() never rejects it: the promise
\* yields a response, or rejects with a network / parse error.
FetchOutcomes(l) ==
    {[kind |-> "ok", name |-> "", data |-> d] :
        d \in (IF l.provider = "nominatim" THEN NominatimResponses
                                           ELSE PhotonResponses)}
    \cup {[kind |-> "error", name |-> "TypeError", data |-> <<>>]}

(***************************************************************************)
(* EnhancedLocationSearch                                                  *)
(***************************************************************************)
\* <Dialog open={showForm}>: while the dialog is open its backdrop covers the
\* page, so the map, the sidebar, the header and the search field get no
\* click and no key.
DialogOpen == showForm

\* The search controller's steps leave the sidebar's selection alone.
NoSide == UNCHANGED sideVars

\* A variant in which a step of the search controller closes the form.
SearchOnlyClosesForm ==
    /\ showForm' = FALSE
    /\ UNCHANGED <<inst, markers, formLatLng, formData, search, editMode,
                   editingId>>
    /\ UNCHANGED <<shellVars, storeVars, historyVars, loginVars, callVars>>

\* The search controller's steps leave the shell, the dashboard, the store
\* and the login page alone.
SearchOnly ==
    UNCHANGED <<shellVars, dashVars, storeVars, historyVars, loginVars, callVars>>

\* A variant of the early return that tests emptiness only.
TooShortNoLength(searchQuery) == searchQuery = ""

\* searchLocations' early return: !searchQuery || searchQuery.length < 3
TooShort(searchQuery) == searchQuery = "" \/ Len(searchQuery) < MIN_QUERY_LEN

\* searchLocations(searchQuery), up to its await: the callers leave the
\* variables it writes alone.
SearchLocations(searchQuery, provider) ==
    IF TooShort(searchQuery)
    THEN /\ suggestions' = <<>>
         /\ lastWriter' = 0
         /\ shownFor' = NoLookup
         /\ served' = ""
         /\ UNCHANGED <<isLoading, error, abortControllerRef, aborted,
                        inflight, nextId, burstApplied>>
    ELSE /\ nextId <= MaxLookups
         /\ aborted' = IF abortControllerRef # 0
                       THEN aborted \cup {abortControllerRef} ELSE aborted
         /\ abortControllerRef' = nextId
         /\ isLoading' = TRUE
         /\ error' = ""
         /\ inflight' = inflight \cup
                {[id |-> nextId, q |-> searchQuery, provider |-> provider]}
         /\ nextId' = nextId + 1
         /\ burstApplied' = IF inflight = {} THEN 0 ELSE burstApplied
         /\ served' = searchQuery
         /\ UNCHANGED <<suggestions, lastWriter, shownFor>>

\* useDebounce + the effect on [value, delay]: a changed value clears the
\* pending timeout and sets a new one.
SetQuery(value) ==
    /\ query' = value
    /\ timer' = IF value # query THEN TRUE ELSE timer

\* handleInputChange: onChange carries a value different from the shown one.
HandleInputChange ==
    \E value \in Texts \ {query} :
        /\ ~DialogOpen
        /\ SetQuery(value)
        /\ error' = ""
        /\ isExpanded' = IF Len(value) >= MIN_QUERY_LEN THEN TRUE ELSE isExpanded
        /\ SearchOnly
        /\ UNCHANGED lastOutcome
        /\ idleSince' = "none"
        /\ NoSide
        /\ UNCHANGED <<suggestions, selectedPosition, selectedName, isLoading,
                       apiProvider, showSettings, abortControllerRef, aborted,
                       debouncedQuery, inflight, nextId, burstApplied, lastWriter,
                       shownFor,
                       served>>

\* The timeout of useDebounce expires: setDebouncedValue(value); when the
\* debounced value changed, the search effect runs searchLocations on it.
DebounceFire ==
    /\ timer
    /\ timer' = FALSE
    /\ debouncedQuery' = query
    /\ IF query # debouncedQuery
       THEN SearchLocations(query, apiProvider)
       ELSE UNCHANGED <<suggestions, isLoading, error, abortControllerRef,
                        aborted, inflight, nextId, burstApplied, lastWriter,
                       shownFor,
                       served>>
    /\ SearchOnly
    /\ UNCHANGED <<lastOutcome, idleSince>>
    /\ NoSide
    /\ UNCHANGED <<query, selectedPosition, selectedName, isExpanded,
                   apiProvider, showSettings>>

\* A variant in which the effect looks up the text of the input field.
ChangeProviderSearchesInput ==
    \E p \in Providers \ {apiProvider} :
        /\ ~DialogOpen
        /\ showSettings
        /\ apiProvider' = p
        /\ SearchLocations(query, p)
        /\ SearchOnly
        /\ UNCHANGED <<lastOutcome, idleSince>>
        /\ NoSide
        /\ UNCHANGED <<query, selectedPosition, selectedName, isExpanded,
                       showSettings, debouncedQuery, timer>>

\* The provider select (inside the settings panel): searchLocations is
\* re-created for the new provider, so the search effect runs again.
ChangeProvider ==
    \E p \in Providers \ {apiProvider} :
        /\ ~DialogOpen
        /\ showSettings
        /\ apiProvider' = p
        /\ SearchLocations(debouncedQuery, p)
        /\ SearchOnly
        /\ UNCHANGED <<lastOutcome, idleSince>>
        /\ NoSide
        /\ UNCHANGED <<query, selectedPosition, selectedName, isExpanded,
                       showSettings, debouncedQuery, timer>>

\* A variant of the continuation whose catch leaves the suggestions alone.
ApplyOutcomeKeepsList(l, o) ==
    /\ IF o.kind = "ok"
       THEN LET results == ApiSearch(l.provider, o.data) IN
            IF Len(results) > 0
            THEN /\ suggestions' = results
                 /\ error' = error
            ELSE /\ suggestions' = <<>>
                 /\ error' = NO_RESULTS
       ELSE IF o.name # "AbortError"
            THEN /\ error' = SEARCH_FAILED
                 /\ suggestions' = suggestions
            ELSE UNCHANGED <<suggestions, error>>
    /\ isLoading' = FALSE

\* The continuation of searchLocations after the await, for lookup l settling
\* with outcome o: try / catch / finally.
ApplyOutcome(l, o) ==
    /\ IF o.kind = "ok"
       THEN LET results == ApiSearch(l.provider, o.data) IN
            IF Len(results) > 0
            THEN /\ suggestions' = results
                 /\ error' = error
            ELSE /\ suggestions' = <<>>
                 /\ error' = NO_RESULTS
       ELSE IF o.name # "AbortError"
            THEN /\ error' = SEARCH_FAILED
                 /\ suggestions' = <<>>
            ELSE UNCHANGED <<suggestions, error>>
    /\ isLoading' = FALSE

LookupSettles ==
    \E l \in inflight : \E o \in FetchOutcomes(l) :
        /\ inflight' = inflight \ {l}
        /\ ApplyOutcome(l, o)
        /\ burstApplied' = IF o.kind = "ok" \/ o.name # "AbortError"
                           THEN burstApplied + 1 ELSE burstApplied
        /\ lastWriter' = IF o.kind = "ok" \/ o.name # "AbortError"
                         THEN l.id ELSE lastWriter
        /\ shownFor' = IF o.kind = "ok" \/ o.name # "AbortError"
                       THEN (IF suggestions' # <<>> THEN l ELSE NoLookup)
                       ELSE shownFor
        /\ lastOutcome' = o
        /\ UNCHANGED <<served, idleSince>>
        /\ SearchOnly
        /\ NoSide
        /\ UNCHANGED <<query, selectedPosition, selectedName, isExpanded,
                       apiProvider, showSettings, abortControllerRef, aborted,
                       debouncedQuery, timer, nextId>>

\* A variant of the position that takes the two coordinates in the other order.
PositionSwapped(place) == <<place.lon, place.lat>>

\* const position = [lat, lon]
Position(place) == <<place.lat, place.lon>>

\* handleSelect(place): a row of the results panel is clicked; the map is
\* moved to the place (mapRef.current is set once the map is created).
HandleSelect ==
    \E i \in 1..Len(suggestions) :
        LET place == suggestions[i] IN
        /\ ~DialogOpen
        /\ isExpanded
        /\ selectedPosition' = Position(place)
        /\ selectedName' = place.display_name
        /\ SetQuery(place.display_name)
        /\ suggestions' = <<>>
        /\ isExpanded' = FALSE
        /\ error' = ""
        /\ lastWriter' = 0
        /\ shownFor' = NoLookup
        /\ served' = ""
        /\ mapView' = [lat |-> Position(place)[1], lng |-> Position(place)[2],
                        dx |-> 0, zoom |-> SELECT_ZOOM]
        /\ UNCHANGED <<selectedMarkerIdx, popupTimers, openPopup>>
        /\ SearchOnly
        /\ UNCHANGED lastOutcome
        /\ idleSince' = "select"
        /\ UNCHANGED <<isLoading, apiProvider, showSettings, abortControllerRef,
                       aborted, debouncedQuery, inflight, nextId, burstApplied>>

\* A variant of handleClear that keeps the selected location.
HandleClearKeepsSelection ==
    /\ ~DialogOpen
    /\ query # "" \/ selectedName # ""
    /\ SetQuery("")
    /\ suggestions' = <<>>
    /\ selectedName' = ""
    /\ isExpanded' = FALSE
    /\ error' = ""
    /\ lastWriter' = 0
    /\ shownFor' = NoLookup
    /\ served' = ""
    /\ SearchOnly
    /\ UNCHANGED lastOutcome
    /\ idleSince' = "clear"
    /\ NoSide
    /\ UNCHANGED <<selectedPosition, isLoading, apiProvider, showSettings,
                   abortControllerRef, aborted, debouncedQuery, inflight, nextId,
                   burstApplied>>

\* handleClear: the x button (shown while query is non-empty) or the chip's
\* delete (shown while selectedName is non-empty).
HandleClear ==
    /\ ~DialogOpen
    /\ query # "" \/ selectedName # ""
    /\ SetQuery("")
    /\ suggestions' = <<>>
    /\ selectedPosition' = NoPosition
    /\ selectedName' = ""
    /\ isExpanded' = FALSE
    /\ error' = ""
    /\ lastWriter' = 0
    /\ shownFor' = NoLookup
    /\ served' = ""
    /\ SearchOnly
    /\ UNCHANGED lastOutcome
    /\ idleSince' = "clear"
    /\ NoSide
    /\ UNCHANGED <<isLoading, apiProvider, showSettings, abortControllerRef,
                   aborted, debouncedQuery, inflight, nextId, burstApplied>>

ToggleExpand ==
    /\ ~DialogOpen
    /\ isExpanded' = ~isExpanded
    /\ SearchOnly
    /\ UNCHANGED <<lastOutcome, idleSince>>
    /\ NoSide
    /\ UNCHANGED <<query, suggestions, selectedPosition, selectedName, isLoading,
                   error, apiProvider, showSettings, abortControllerRef, aborted,
                   debouncedQuery, timer, inflight, nextId, burstApplied,
                   lastWriter, shownFor, served>>

ToggleSettings ==
    /\ ~DialogOpen
    /\ showSettings' = ~showSettings
    /\ SearchOnly
    /\ UNCHANGED <<lastOutcome, idleSince>>
    /\ NoSide
    /\ UNCHANGED <<query, suggestions, selectedPosition, selectedName, isExpanded,
                   isLoading, error, apiProvider, abortControllerRef, aborted,
                   debouncedQuery, timer, inflight, nextId, burstApplied,
                   lastWriter, shownFor, served>>

(***************************************************************************)
(* Strings as character sequences, for toLowerCase() and includes().       *)
(***************************************************************************)
UpperCase == <<"A","B","C","D","E","F","G","H","I","J","K","L","M",
               "N","O","P","Q","R","S","T","U","V","W","X","Y","Z">>
LowerCase == <<"a","b","c","d","e","f","g","h","i","j","k","l","m",
               "n","o","p","q","r","s","t","u","v","w","x","y","z">>

\* The characters of the strings the model uses.
Chars(str) ==
    CASE str = "" -> <<>>
      [] str = "Pipeline" -> <<"P","i","p","e","l","i","n","e">>
      [] str = "In Proposal" -> <<"I","n"," ","P","r","o","p","o","s","a","l">>
      [] str = "POC Stage" -> <<"P","O","C"," ","S","t","a","g","e">>
      [] str = "Current Client" ->
            <<"C","u","r","r","e","n","t"," ","C","l","i","e","n","t">>
      [] str = "Acme Corp" -> <<"A","c","m","e"," ","C","o","r","p">>
      [] str = "Globex Inc" -> <<"G","l","o","b","e","x"," ","I","n","c">>
      [] str = "Stark Industries" ->
            <<"S","t","a","r","k"," ","I","n","d","u","s","t","r","i","e","s">>
      [] str = "Wayne Enterprises" ->
            <<"W","a","y","n","e"," ","E","n","t","e","r","p","r","i","s","e","s">>
      [] str = "Tech Solutions" ->
            <<"T","e","c","h"," ","S","o","l","u","t","i","o","n","s">>
      [] str = "Global Systems" ->
            <<"G","l","o","b","a","l"," ","S","y","s","t","e","m","s">>
      [] str = "Zenith" -> <<"Z","e","n","i","t","h">>
      [] str = "IN" -> <<"I","N">>

LowerOf ==
    [c \in {UpperCase[k] : k \in 1..Len(UpperCase)} |->
        LowerCase[CHOOSE k \in 1..Len(UpperCase) : UpperCase[k] = c]]

\* String.prototype.toLowerCase, per character.
ToLowerCase(cs) ==
    [i \in 1..Len(cs) |-> IF cs[i] \in DOMAIN LowerOf THEN LowerOf[cs[i]] ELSE cs[i]]

\* String.prototype.includes: needle occurs in hay as a contiguous run.
Includes(hay, needle) ==
    \E off \in 0..(Len(hay) - Len(needle)) :
        \A i \in 1..Len(needle) : hay[off + i] = needle[i]

(***************************************************************************)
(* Program constants of the dashboard.                                     *)
(***************************************************************************)
ADMIN_EMAIL == "admin@seewise.ai"
\* A variant of the default that is none of the stages.
DefaultStageLead == "Lead"

DEFAULT_STAGE == "Pipeline"
STAGES == <<"Pipeline", "In Proposal", "POC Stage", "Current Client">>

\* The sales users of the model: ANN signs in on this client, BOB elsewhere.
ANN == "ann@seewise.ai"
BOB == "bob@seewise.ai"
Accounts == {ADMIN_EMAIL, ANN}

\* What the user types or picks in the form, the sidebar filter and the map.
InNames == {"Zenith"}
InDescriptions == {"Ohio"}
InSalespersons == {BOB}
InStages == {"Current Client"}
InFilters == {"", "IN"}
Points == {<<400000, -800000>>}

EmptyForm == [site_name |-> "", description |-> "", salesperson |-> "",
              stage |-> DEFAULT_STAGE]

\* The initial value of the markers state; coordinates in 1/10000 degree.
DemoMarker(name, desc, who, la, ln, now, st) ==
    [id |-> Undefined, site_name |-> name, description |-> desc,
     salesperson |-> who, lat |-> la, lng |-> ln, timestamp |-> now, stage |-> st]

DemoMarkers(now) ==
    << DemoMarker("Acme Corp", "Ohio", "John", 415000, -827000, now, "Pipeline"),
       DemoMarker("Globex Inc", "West Virginia", "Jane", 393000, -800000, now,
                  "In Proposal"),
       DemoMarker("Stark Industries", "New York", "Tony", 430000, -760000, now,
                  "POC Stage"),
       DemoMarker("Wayne Enterprises", "Philadelphia", "Bruce", 399500, -751600,
                  now, "Current Client"),
       DemoMarker("Tech Solutions", "California", "Alice", 377749, -1224194, now,
                  "Pipeline"),
       DemoMarker("Global Systems", "Texas", "Bob", 327767, -967970, now,
                  "Current Client") >>

(***************************************************************************)
(* The document store: the live query and its snapshots.                   *)
(***************************************************************************)
\* Documents other clients wrote before this one started.
InitialStore ==
    {[id |-> "d1",
      data |-> [site_name |-> "Acme Corp", description |-> "Ohio",
                salesperson |-> BOB, stage |-> "In Proposal",
                lat |-> 415000, lng |-> -827000, timestamp |-> 1]]}

IsAdmin(email) == email = ADMIN_EMAIL

\* where('salesperson', '==', user.email), left out for the administrator.
QueryFilter(docs, email) ==
    IF IsAdmin(email) THEN docs
    ELSE {d \in docs : d.data.salesperson = email}

\* Document names, in the order the store compares them.
DocIds == <<"d1", "d2", "d3", "d4", "d5">>
DocIndex(id) == CHOOSE k \in 1..Len(DocIds) : DocIds[k] = id

\* orderBy('timestamp', 'desc'): d comes before e; equal timestamps are
\* ordered by document name, descending as well.
OrderedBefore(d, e) ==
    \/ d.data.timestamp > e.data.timestamp
    \/ d.data.timestamp = e.data.timestamp /\ DocIndex(d.id) >= DocIndex(e.id)

RECURSIVE OrderBy(_)
OrderBy(docs) ==
    IF docs = {} THEN <<>>
    ELSE LET first == CHOOSE d \in docs : \A e \in docs : OrderedBefore(d, e)
         IN <<first>> \o OrderBy(docs \ {first})

\* snapshot.docs of the live query of `email` over the collection.
QueryDocs(docs, email) == OrderBy(QueryFilter(docs, email))

\* doc => ({ id: doc.id, ...doc.data() })
DocToMarker(doc) ==
    [id |-> doc.id, site_name |-> doc.data.site_name,
     description |-> doc.data.description, salesperson |-> doc.data.salesperson,
     lat |-> doc.data.lat, lng |-> doc.data.lng,
     timestamp |-> doc.data.timestamp, stage |-> doc.data.stage]

\* A variant of the handler that appends the snapshot to the list it had.
SnapshotMarkersMerged(old, docs) ==
    old \o [i \in 1..Len(docs) |-> DocToMarker(docs[i])]

\* The onSnapshot handler's setMarkers(data): the new value of markers.
SnapshotMarkers(old, docs) == [i \in 1..Len(docs) |-> DocToMarker(docs[i])]

\* onSnapshot(q, handler) by dashboard instance i for `email`.
Subscribe(ls, email, i) ==
    ls \cup {[email |-> email, inst |-> i, delivered |-> FALSE, last |-> <<>>]}

\* A variant of the cleanup that leaves the subscription in place.
UnsubscribeNothing(ls, email, i) == ls

\* The effect's cleanup: unsubscribe().
Unsubscribe(ls, email, i) == {l \in ls : ~(l.email = email /\ l.inst = i)}

(***************************************************************************)
(* App: the shell.                                                         *)
(***************************************************************************)
\* MapContainer center={[40.5, -80.5]} zoom={4}
InitialView == [lat |-> 405000, lng |-> -805000, dx |-> 0, zoom |-> INITIAL_ZOOM]

\* A variant of the render without the loading screen.
ShownWithoutLoading == IF user # Null THEN "dashboard" ELSE "login"

\* What App renders: MapLoading while loading, then SimpleMapWithSearch for a
\* user and LoginPage for none.
Shown ==
    IF appLoading THEN "loading"
    ELSE IF user # Null THEN "dashboard" ELSE "login"

\* App renders SimpleMapWithSearch.
Mounted == Shown = "dashboard"

\* LoginPage's state when it mounts.
LoginFresh ==
    /\ mode = "login"
    /\ loginEmail = ""
    /\ password = ""
    /\ confirmPassword = ""
    /\ fullName = ""
    /\ loading = FALSE

\* LoginPage is mounted, now or the next time it is rendered.
LoginMounts ==
    /\ mode' = "login"
    /\ loginEmail' = ""
    /\ password' = ""
    /\ confirmPassword' = ""
    /\ fullName' = ""
    /\ loading' = FALSE

\* No call to the identity provider is awaited.
NoCall == [kind |-> "none", email |-> "", password |-> "", name |-> ""]

\* The render after App's state became (u, not loading): the dashboard is
\* mounted (fresh state, the live query effect runs), unmounted (the effect's
\* cleanup runs), or re-rendered (the effect re-runs when user.email changed).
\* LoginPage is rendered in the dashboard's place, with fresh state each time.
Render(u) ==
    IF ~Mounted /\ u # Null
    THEN /\ inst < MaxMounts
         /\ inst' = inst + 1
         /\ markers' = DemoMarkers(clock)
         /\ listeners' = Subscribe(listeners, u, inst + 1)
         /\ LoginMounts
         /\ UNCHANGED <<showForm, formLatLng, formData, search, editMode,
                        editingId, sideVars, awaiting>>
    ELSE IF Mounted /\ u = Null
    THEN /\ listeners' = Unsubscribe(listeners, user, inst)
         /\ markers' = <<>>
         /\ showForm' = FALSE
         /\ formLatLng' = NoPosition
         /\ formData' = EmptyForm
         /\ search' = ""
         /\ editMode' = FALSE
         /\ editingId' = Null
         /\ selectedMarkerIdx' = 0
         /\ popupTimers' = {}
         /\ openPopup' = 0
         /\ mapView' = InitialView
         /\ awaiting' = {}
         /\ LoginMounts
         /\ UNCHANGED inst
    ELSE IF Mounted /\ u # user
    THEN /\ listeners' = Subscribe(Unsubscribe(listeners, user, inst), u, inst)
         /\ awaiting' = {}
         /\ UNCHANGED <<inst, markers, showForm, formLatLng, formData, search,
                        editMode, editingId, sideVars, loginVars>>
    ELSE UNCHANGED <<inst, markers, listeners, showForm, formLatLng, formData,
                     search, editMode, editingId, sideVars, awaiting, loginVars>>

DashOnly == UNCHANGED searchVars

NoLogin == UNCHANGED <<loginVars, callVars>>

\* The onAuthStateChanged callback: setUser(firebaseUser | null); setLoading(false).
AuthStateChanged ==
    /\ authNotify
    /\ authNotify' = FALSE
    /\ user' = authUser
    /\ appLoading' = FALSE
    /\ Render(authUser)
    /\ UNCHANGED <<authUser, store, nextDocId, pendingWrites, clock, typed, missed>>
    /\ notified' = TRUE
    /\ UNCHANGED <<callVars, formOrigin, creates>>
    /\ DashOnly

\* LoginPage: a sign-in (or registration) succeeds, then onLogin() runs
\* setUser(auth.currentUser).
SignIn ==
    \E u \in Accounts :
        /\ ~appLoading /\ user = Null
        /\ authUser' = u
        /\ authNotify' = TRUE
        /\ user' = u
        /\ Render(u)
        /\ UNCHANGED <<appLoading, store, nextDocId, pendingWrites, clock, typed,
                       missed>>
        /\ UNCHANGED <<callVars, formOrigin, notified, creates>>
        /\ DashOnly

\* DashboardHeader's Logout: auth.signOut().
Logout ==
    /\ Mounted
    /\ ~DialogOpen
    /\ authUser # Null
    /\ authUser' = Null
    /\ authNotify' = TRUE
    /\ UNCHANGED <<user, appLoading, dashVars, storeVars, historyVars>>
    /\ NoSide
    /\ DashOnly
    /\ NoLogin

\* The session changes outside this page (another tab of the same browser
\* signs in or out): the identity provider notifies this page too.
SessionChangesElsewhere ==
    \E u \in (Accounts \cup {Null}) \ {authUser} :
        /\ authUser' = u
        /\ authNotify' = TRUE
        /\ UNCHANGED <<user, appLoading, dashVars, storeVars, historyVars>>
        /\ NoSide
        /\ DashOnly
        /\ NoLogin

(***************************************************************************)
(* LoginPage                                                               *)
(***************************************************************************)
REGISTER_DOMAIN == "@seewise.ai"
MIN_PASSWORD_LEN == 6
MSG_DOMAIN == "Only @seewise.ai emails are allowed to register."
MSG_MISMATCH == "Passwords do not match"
MSG_SHORT == "Password must be at least 6 characters long"
MSG_CREATED == "Account created successfully!"
\* err.message of a rejection by the identity provider.
MSG_PROVIDER == "Firebase: Error"

\* What the user types into the fields of the two forms.
InEmails == {ANN, "ann@gmail.com"}
InPasswords == {"secret", "abc12"}
InFullNames == {"Ann", " "}

\* String.prototype.endsWith
EndsWith(str, suffix) ==
    /\ Len(str) >= Len(suffix)
    /\ SubSeq(str, Len(str) - Len(suffix) + 1, Len(str)) = suffix

\* String.prototype.trim on the names of the model.
Trim(str) == IF str = " " THEN "" ELSE str

\* LoginPage is what App renders.
LoginShown == Shown = "login"

\* The login page's steps leave the search component and the store alone.
LoginOnly == UNCHANGED <<searchVars, storeVars, historyVars>>

\* One of the text fields is changed.
SetEmail ==
    \E v \in InEmails \ {loginEmail} :
        /\ LoginShown
        /\ loginEmail' = v
        /\ UNCHANGED <<mode, password, confirmPassword, fullName, loading>>
        /\ UNCHANGED <<callVars, shellVars, dashVars, sideVars>>
        /\ LoginOnly

SetPassword ==
    \E v \in InPasswords \ {password} :
        /\ LoginShown
        /\ password' = v
        /\ UNCHANGED <<mode, loginEmail, confirmPassword, fullName, loading>>
        /\ UNCHANGED <<callVars, shellVars, dashVars, sideVars>>
        /\ LoginOnly

SetConfirmPassword ==
    \E v \in InPasswords \ {confirmPassword} :
        /\ LoginShown
        /\ mode = "register"
        /\ confirmPassword' = v
        /\ UNCHANGED <<mode, loginEmail, password, fullName, loading>>
        /\ UNCHANGED <<callVars, shellVars, dashVars, sideVars>>
        /\ LoginOnly

SetFullName ==
    \E v \in InFullNames \ {fullName} :
        /\ LoginShown
        /\ mode = "register"
        /\ fullName' = v
        /\ UNCHANGED <<mode, loginEmail, password, confirmPassword, loading>>
        /\ UNCHANGED <<callVars, shellVars, dashVars, sideVars>>
        /\ LoginOnly

\* handleTabChange: the other tab is clicked; the fields are reset.
HandleTabChange ==
    /\ LoginShown
    /\ mode' = IF mode = "login" THEN "register" ELSE "login"
    /\ loginEmail' = ""
    /\ password' = ""
    /\ confirmPassword' = ""
    /\ fullName' = ""
    /\ UNCHANGED <<loading, callVars, shellVars, dashVars, sideVars>>
    /\ LoginOnly

\* handleLogin, up to its await.  The submit button is disabled while loading;
\* the model has one call to the provider awaited at a time.
HandleLogin ==
    /\ LoginShown
    /\ mode = "login"
    /\ ~loading
    /\ authCall = NoCall
    /\ loading' = TRUE
    /\ authCall' = [kind |-> "signIn", email |-> loginEmail,
                     password |-> password, name |-> ""]
    /\ UNCHANGED <<mode, loginEmail, password, confirmPassword, fullName>>
    /\ UNCHANGED <<alertMsg, shellVars, dashVars, sideVars>>
    /\ LoginOnly

\* A variant of the validation without the test of the domain.
RegistrationErrorAnyDomain(e, p, c) ==
    IF p # c THEN MSG_MISMATCH
    ELSE IF Len(p) < MIN_PASSWORD_LEN THEN MSG_SHORT
    ELSE ""

\* The three tests of handleRegister: the alert's text, "" when they pass.
RegistrationError(e, p, c) ==
    IF ~EndsWith(e, REGISTER_DOMAIN) THEN MSG_DOMAIN
    ELSE IF p # c THEN MSG_MISMATCH
    ELSE IF Len(p) < MIN_PASSWORD_LEN THEN MSG_SHORT
    ELSE ""

\* handleRegister, up to its await.
HandleRegister ==
    /\ LoginShown
    /\ mode = "register"
    /\ ~loading
    /\ authCall = NoCall
    /\ LET err == RegistrationError(loginEmail, password, confirmPassword) IN
       IF err # ""
       THEN /\ alertMsg' = err
            /\ UNCHANGED <<loading, authCall>>
       ELSE /\ loading' = TRUE
            /\ authCall' = [kind |-> "create", email |-> loginEmail,
                             password |-> password, name |-> fullName]
            /\ UNCHANGED alertMsg
    /\ UNCHANGED <<mode, loginEmail, password, confirmPassword, fullName>>
    /\ UNCHANGED <<shellVars, dashVars, sideVars>>
    /\ LoginOnly

\* onLogin(): setUser(auth.currentUser), and the render that follows.
OnLogin(u) ==
    /\ user' = u
    /\ Render(u)

\* The awaited call is rejected: alert(err.message); finally setLoading(false).
AuthCallFails ==
    /\ authCall # NoCall
    /\ authCall' = NoCall
    /\ alertMsg' = MSG_PROVIDER
    /\ loading' = FALSE
    /\ UNCHANGED <<mode, loginEmail, password, confirmPassword, fullName>>
    /\ UNCHANGED <<shellVars, dashVars, sideVars, listeners>>

\* The awaited call is fulfilled.  signIn and createUser sign the account in;
\* after createUser, a non-blank full name is sent with updateProfile, which is
\* awaited before the alert and onLogin().
AuthCallSucceeds ==
    /\ authCall # NoCall
    /\ authCall.email # ""
    /\ authCall.password # ""
    /\ IF authCall.kind = "create" /\ Trim(authCall.name) # ""
       THEN /\ authCall' = [authCall EXCEPT !.kind = "profile"]
            /\ authUser' = authCall.email
            /\ authNotify' = TRUE
            /\ UNCHANGED <<user, appLoading, alertMsg, loginVars, dashVars,
                           sideVars, listeners, awaiting>>
       ELSE /\ authCall' = NoCall
            /\ authUser' = IF authCall.kind = "profile" THEN authUser
                            ELSE authCall.email
            /\ authNotify' = IF authCall.kind = "profile" THEN authNotify
                              ELSE TRUE
            /\ alertMsg' = IF authCall.kind = "signIn" THEN alertMsg
                            ELSE MSG_CREATED
            /\ OnLogin(authUser')
            /\ UNCHANGED appLoading

\* The awaited call settles.
AuthCallSettles ==
    /\ \/ AuthCallSucceeds /\ UNCHANGED missed
       \/ AuthCallFails /\ UNCHANGED <<awaiting, missed>>
    /\ UNCHANGED <<store, nextDocId, pendingWrites, clock, typed>>
    /\ UNCHANGED <<searchVars, formOrigin, notified, creates>>

(***************************************************************************)
(* SimpleMapWithSearch: the dashboard.                                     *)
(***************************************************************************)
\* A variant of the filter's test that looks at the name only.
MatchesFilterNameOnly(m, text) ==
    Includes(ToLowerCase(Chars(m.site_name)), ToLowerCase(Chars(text)))

\* const filteredMarkers = markers.filter(m => ...)
MatchesFilter(m, text) ==
    \/ Includes(ToLowerCase(Chars(m.site_name)), ToLowerCase(Chars(text)))
    \/ Includes(ToLowerCase(Chars(m.stage)), ToLowerCase(Chars(text)))

FilteredMarkers(ms, text) == SelectSeq(ms, LAMBDA m : MatchesFilter(m, text))

\* JavaScript truthiness of editingId (null, undefined or a document name).
Truthy(v) == v # Null /\ v # Undefined /\ v # ""

RemoveAt(seq, i) ==
    [j \in 1..(Len(seq) - 1) |-> IF j < i THEN seq[j] ELSE seq[j + 1]]

\* The data of a write that carries none (deleteDoc).
NoData == [site_name |-> "", description |-> "", salesperson |-> "",
           stage |-> "", lat |-> 0, lng |-> 0, timestamp |-> 0]

\* handleMapClick(latlng): AddMarker's click on the map.
HandleMapClick ==
    \E latlng \in Points :
        /\ Mounted
        /\ ~DialogOpen
        /\ formLatLng' = latlng
        /\ formData' = [site_name |-> "", description |-> "",
                        salesperson |-> user, stage |-> DEFAULT_STAGE]
        /\ showForm' = TRUE
        /\ typed' = 0
        /\ UNCHANGED <<inst, markers, search, editMode, editingId>>
        /\ UNCHANGED <<shellVars, store, nextDocId, listeners, pendingWrites,
                       clock, awaiting, missed, notified>>
        /\ formOrigin' = "click"
        /\ creates' = 0
        /\ NoSide
        /\ DashOnly
        /\ NoLogin

\* handleFormChange: one field of the dialog is changed.
HandleFormChange ==
    /\ Mounted
    /\ showForm
    /\ \/ \E v \in InNames : formData' = [formData EXCEPT !.site_name = v]
       \/ \E v \in InDescriptions : formData' = [formData EXCEPT !.description = v]
       \/ \E v \in InSalespersons : formData' = [formData EXCEPT !.salesperson = v]
       \/ \E v \in InStages : formData' = [formData EXCEPT !.stage = v]
    /\ typed < MaxTyped
    /\ typed' = typed + 1
    /\ UNCHANGED <<inst, markers, showForm, formLatLng, search, editMode, editingId>>
    /\ UNCHANGED <<shellVars, store, nextDocId, listeners, pendingWrites, clock,
                   historyVars>>
    /\ NoSide
    /\ DashOnly
    /\ NoLogin

\* A variant of the routing that looks at the edit mode only.
SubmitWriteByMode(newMarker) ==
    IF editMode
    THEN [op |-> "update", id |-> editingId, data |-> newMarker,
          inst |-> inst, email |-> user, edit |-> editMode]
    ELSE [op |-> "add", id |-> Null, data |-> newMarker,
          inst |-> inst, email |-> user, edit |-> editMode]

\* The write handleFormSubmit issues: updateDoc when an editing target is set,
\* addDoc otherwise.  `edit` records which form, edit or create, was submitted.
SubmitWrite(newMarker) ==
    IF editMode /\ Truthy(editingId)
    THEN [op |-> "update", id |-> editingId, data |-> newMarker,
          inst |-> inst, email |-> user, edit |-> editMode]
    ELSE [op |-> "add", id |-> Null, data |-> newMarker,
          inst |-> inst, email |-> user, edit |-> editMode]

\* handleFormSubmit, up to its await (the Save button of the open dialog).
\* With formLatLng null the handler throws before it writes anything.  Each
\* new Date() reads a later time than the one before, up to `last`; at most
\* `most` writes are awaited at a time.  The Save button stays enabled while
\* a write is awaited.
FormSubmitBy(last, most) ==
    \E now \in {clock + 1} :
        /\ Mounted
        /\ showForm
        /\ formLatLng # NoPosition
        /\ now <= last
        /\ Len(pendingWrites) < most
        /\ clock' = now
        /\ LET newMarker ==
                 [site_name |-> formData.site_name,
                  description |-> formData.description,
                  salesperson |-> formData.salesperson,
                  stage |-> formData.stage,
                  lat |-> formLatLng[1], lng |-> formLatLng[2],
                  timestamp |-> now]
           IN /\ pendingWrites' = Append(pendingWrites, SubmitWrite(newMarker))
              /\ creates' = IF SubmitWrite(newMarker).op = "add"
                            THEN creates + 1 ELSE creates
        /\ UNCHANGED <<dashVars, shellVars, store, nextDocId, listeners, typed,
                       awaiting, missed, formOrigin, notified>>
        /\ NoSide
        /\ DashOnly
        /\ NoLogin

HandleFormSubmit == FormSubmitBy(MaxClock, MaxPending)

\* The store applies write w.
StoreApply(docs, w, newId) ==
    CASE w.op = "add" -> docs \cup {[id |-> newId, data |-> w.data]}
      [] w.op = "update" ->
            {IF d.id = w.id THEN [id |-> d.id, data |-> w.data] ELSE d : d \in docs}
      [] w.op = "delete" -> {d \in docs : d.id # w.id}

\* Whether the store can accept w: an update needs its document.
CanApply(w) ==
    CASE w.op = "add" -> TRUE
      [] w.op = "update" -> \E d \in store : d.id = w.id
      [] w.op = "delete" -> TRUE

\* A variant of the continuation that leaves the edit mode and its target.
SubmitSucceededKeepsTarget(w) ==
    IF w.op \in {"add", "update"} /\ Mounted /\ w.inst = inst
    THEN /\ showForm' = FALSE
         /\ formLatLng' = NoPosition
         /\ formData' = EmptyForm
         /\ UNCHANGED <<editMode, editingId>>
    ELSE UNCHANGED <<showForm, editMode, editingId, formLatLng, formData>>

\* handleFormSubmit after its await succeeded, in the instance that issued it.
SubmitSucceeded(w) ==
    IF w.op \in {"add", "update"} /\ Mounted /\ w.inst = inst
    THEN /\ showForm' = FALSE
         /\ editMode' = FALSE
         /\ editingId' = Null
         /\ formLatLng' = NoPosition
         /\ formData' = EmptyForm
    ELSE UNCHANGED <<showForm, editMode, editingId, formLatLng, formData>>

\* A variant of the catch that closes the dialog.
SubmitFailedClosesForm(w) ==
    /\ showForm' = FALSE
    /\ UNCHANGED <<editMode, editingId, formLatLng, formData>>

\* The catch of handleFormSubmit and of handleDelete: console.error only.
SubmitFailed(w) ==
    UNCHANGED <<showForm, editMode, editingId, formLatLng, formData>>

\* A write settles: the store applies it and the awaiting handler continues,
\* or the store rejects it and the handler's catch logs the error.
WriteSettles ==
    \E i \in 1..Len(pendingWrites) : \E ok \in BOOLEAN :
        LET w == pendingWrites[i] IN
        /\ pendingWrites' = RemoveAt(pendingWrites, i)
        /\ IF ok
           THEN /\ CanApply(w)
                /\ store' = StoreApply(store, w, DocIds[nextDocId])
                /\ nextDocId' = IF w.op = "add" THEN nextDocId + 1 ELSE nextDocId
                /\ SubmitSucceeded(w)
                /\ awaiting' =
                      IF w.op = "add" /\ ~w.edit /\ Mounted /\ w.inst = inst
                         /\ w.email = user
                      THEN awaiting \cup {w.data} ELSE awaiting
           ELSE /\ SubmitFailed(w)
                /\ UNCHANGED <<store, nextDocId, awaiting>>
        /\ UNCHANGED <<inst, markers, search, listeners, clock, typed, missed,
                       formOrigin, notified, creates>>
        /\ UNCHANGED shellVars
        /\ NoSide
        /\ DashOnly
        /\ NoLogin

\* Whether marker m shows the submitted fields, with an identifier of the
\* store and a timestamp.
ShowsSubmitted(m, data) ==
    /\ m.id # Undefined
    /\ m.site_name = data.site_name
    /\ m.description = data.description
    /\ m.salesperson = data.salesperson
    /\ m.stage = data.stage
    /\ m.lat = data.lat
    /\ m.lng = data.lng
    /\ m.timestamp = data.timestamp

\* The live query of listener l has a new result: the store pushes it, and the
\* handler of the instance that subscribed runs setMarkers(data).
SnapshotDelivered ==
    \E l \in listeners :
        LET docs == QueryDocs(store, l.email) IN
        /\ ~l.delivered \/ docs # l.last
        /\ listeners' = (listeners \ {l}) \cup
                           {[l EXCEPT !.delivered = TRUE, !.last = docs]}
        /\ IF Mounted /\ l.inst = inst
           THEN /\ markers' = SnapshotMarkers(markers, docs)
                /\ missed' = (missed \/ \E data \in awaiting :
                                ~\E k \in 1..Len(markers') :
                                    ShowsSubmitted(markers'[k], data))
                /\ awaiting' = {}
           ELSE UNCHANGED <<markers, missed, awaiting>>
        /\ openPopup' = IF openPopup > Len(markers') THEN 0 ELSE openPopup
        /\ UNCHANGED <<inst, showForm, formLatLng, formData, search, editMode,
                       editingId, selectedMarkerIdx, popupTimers, mapView,
                       formOrigin, notified, creates>>
        /\ UNCHANGED <<shellVars, store, nextDocId, pendingWrites, clock, typed>>
        /\ DashOnly
        /\ NoLogin

\* The sidebar rows the user clicks: the first MaxRows of the filtered list.
Rows == 1..(IF Len(FilteredMarkers(markers, search)) < MaxRows
            THEN Len(FilteredMarkers(markers, search)) ELSE MaxRows)

\* handleEdit(marker): the edit icon of a sidebar row.
HandleEdit ==
    \E k \in Rows :
        LET marker == FilteredMarkers(markers, search)[k] IN
        /\ Mounted
        /\ ~DialogOpen
        /\ formLatLng' = <<marker.lat, marker.lng>>
        /\ formData' = [site_name |-> marker.site_name,
                        description |-> marker.description,
                        salesperson |-> marker.salesperson,
                        stage |-> marker.stage]
        /\ editingId' = marker.id
        /\ editMode' = TRUE
        /\ showForm' = TRUE
        /\ typed' = 0
        /\ UNCHANGED <<inst, markers, search>>
        /\ UNCHANGED <<shellVars, store, nextDocId, listeners, pendingWrites,
                       clock, awaiting, missed, notified>>
        /\ formOrigin' = "edit"
        /\ creates' = 0
        /\ NoSide
        /\ DashOnly
        /\ NoLogin

\* A variant of handleDelete that also drops the row from the local list.
HandleDeleteLocally ==
    \E k \in Rows : \E confirmed \in BOOLEAN :
        LET marker == FilteredMarkers(markers, search)[k] IN
        /\ Mounted
        /\ ~DialogOpen
        /\ Len(pendingWrites) < MaxPending
        /\ pendingWrites' =
              IF confirmed /\ marker.id # Undefined
              THEN Append(pendingWrites,
                          [op |-> "delete", id |-> marker.id, data |-> NoData,
                           inst |-> inst, email |-> user, edit |-> FALSE])
              ELSE pendingWrites
        /\ markers' = IF confirmed
                       THEN SelectSeq(markers, LAMBDA m : m # marker)
                       ELSE markers
        /\ UNCHANGED <<inst, showForm, formLatLng, formData, search, editMode,
                       editingId>>
        /\ UNCHANGED <<shellVars, store, nextDocId, listeners, clock, typed,
                       historyVars>>
        /\ NoSide
        /\ DashOnly
        /\ NoLogin

\* A variant of handleDelete that does not wait for the answer.
HandleDeleteRowUnasked(k, confirmed) ==
    LET marker == FilteredMarkers(markers, search)[k] IN
    /\ Mounted
    /\ ~DialogOpen
    /\ Len(pendingWrites) < MaxPending
    /\ pendingWrites' =
          IF marker.id # Undefined
          THEN Append(pendingWrites,
                      [op |-> "delete", id |-> marker.id, data |-> NoData,
                       inst |-> inst, email |-> user, edit |-> FALSE])
          ELSE pendingWrites
    /\ UNCHANGED <<dashVars, shellVars, store, nextDocId, listeners, clock,
                   typed, historyVars>>
    /\ NoSide
    /\ DashOnly
    /\ NoLogin

\* handleDelete(marker) for the k-th sidebar row, with the answer to
\* window.confirm.  doc(db, 'clients', undefined) throws inside the try.
HandleDeleteRow(k, confirmed) ==
    LET marker == FilteredMarkers(markers, search)[k] IN
    /\ Mounted
    /\ ~DialogOpen
    /\ Len(pendingWrites) < MaxPending
    /\ pendingWrites' =
          IF confirmed /\ marker.id # Undefined
          THEN Append(pendingWrites,
                      [op |-> "delete", id |-> marker.id, data |-> NoData,
                       inst |-> inst, email |-> user, edit |-> FALSE])
          ELSE pendingWrites
    /\ UNCHANGED <<dashVars, shellVars, store, nextDocId, listeners, clock,
                   typed, historyVars>>
    /\ NoSide
    /\ DashOnly
    /\ NoLogin

\* The delete icon of a sidebar row is clicked and the dialog answered.
HandleDelete ==
    \E k \in Rows : \E confirmed \in BOOLEAN : HandleDeleteRow(k, confirmed)

\* markers.findIndex(m => m.lat === marker.lat && m.lng === marker.lng &&
\*                        m.site_name === marker.site_name), 1-based; 0 for -1.
FindIndex(ms, marker) ==
    LET hits == {i \in 1..Len(ms) : /\ ms[i].lat = marker.lat
                                    /\ ms[i].lng = marker.lng
                                    /\ ms[i].site_name = marker.site_name}
    IN IF hits = {} THEN 0 ELSE CHOOSE i \in hits : \A j \in hits : i <= j

\* handleSidebarSelect(marker): a sidebar row is clicked; the map flies to the
\* record, shifted by half the sidebar's width, and a timeout is set to open
\* the popup.  At most MaxTimers timeouts are pending at a time.
HandleSidebarSelect ==
    \E k \in Rows :
        LET marker == FilteredMarkers(markers, search)[k]
            idx == FindIndex(markers, marker)
        IN
        /\ Mounted
        /\ ~DialogOpen
        /\ Cardinality(popupTimers) < MaxTimers
        /\ selectedMarkerIdx' = idx
        /\ mapView' = [lat |-> marker.lat, lng |-> marker.lng,
                        dx |-> SIDEBAR_WIDTH \div 2, zoom |-> FOCUS_ZOOM]
        /\ popupTimers' = popupTimers \cup {[idx |-> idx, marker |-> marker]}
        /\ UNCHANGED <<openPopup, dashVars, shellVars, storeVars, historyVars>>
        /\ DashOnly
        /\ NoLogin

\* The timeout of handleSidebarSelect expires:
\* if (markerRefs.current[idx]) markerRefs.current[idx].openPopup()
PopupTimerFires ==
    \E t \in popupTimers :
        /\ popupTimers' = popupTimers \ {t}
        /\ openPopup' = IF 1 <= t.idx /\ t.idx <= Len(markers)
                        THEN t.idx ELSE openPopup
        /\ UNCHANGED <<selectedMarkerIdx, mapView, dashVars, shellVars, storeVars,
                       historyVars>>
        /\ DashOnly
        /\ NoLogin

\* The dialog's onClose and its Cancel button.
CloseForm ==
    /\ Mounted
    /\ showForm
    /\ showForm' = FALSE
    /\ UNCHANGED <<inst, markers, formLatLng, formData, search, editMode, editingId>>
    /\ UNCHANGED <<shellVars, storeVars, historyVars>>
    /\ NoSide
    /\ DashOnly
    /\ NoLogin

\* The sidebar's filter field: setSearch(e.target.value).
SetSearch ==
    \E text \in InFilters \ {search} :
        /\ Mounted
        /\ ~DialogOpen
        /\ search' = text
        /\ UNCHANGED <<inst, markers, showForm, formLatLng, formData, editMode,
                       editingId>>
        /\ UNCHANGED <<shellVars, storeVars, historyVars>>
        /\ NoSide
        /\ DashOnly
        /\ NoLogin

\* The search component after its first render and effects: useDebounce has
\* set its timeout, and the search effect has run searchLocations('').
SearchMounted ==
    /\ query = ""
    /\ suggestions = <<>>
    /\ selectedPosition = NoPosition
    /\ selectedName = ""
    /\ isExpanded = FALSE
    /\ isLoading = FALSE
    /\ error = ""
    /\ apiProvider = "photon"
    /\ showSettings = FALSE
    /\ abortControllerRef = 0
    /\ aborted = {}
    /\ debouncedQuery = ""
    /\ timer = TRUE
    /\ inflight = {}
    /\ nextId = 1
    /\ burstApplied = 0
    /\ lastWriter = 0
    /\ shownFor = NoLookup
    /\ served = ""
    /\ lastOutcome = NoOutcome
    /\ idleSince = "none"

\* The page has loaded: App waits for the first session notification.
ShellInit ==
    /\ authUser \in Accounts \cup {Null}
    /\ authNotify = TRUE
    /\ user = Null
    /\ appLoading = TRUE

\* LoginPage before anything was typed, and no call awaited.
LoginInit ==
    /\ LoginFresh
    /\ authCall = NoCall
    /\ alertMsg = ""

DashUnmounted ==
    /\ inst = 0
    /\ markers = <<>>
    /\ showForm = FALSE
    /\ formLatLng = NoPosition
    /\ formData = EmptyForm
    /\ search = ""
    /\ editMode = FALSE
    /\ editingId = Null
    /\ selectedMarkerIdx = 0
    /\ popupTimers = {}
    /\ openPopup = 0
    /\ mapView = InitialView

StoreInit ==
    /\ store = InitialStore
    /\ nextDocId = 2
    /\ listeners = {}
    /\ pendingWrites = <<>>
    /\ clock = 1
    /\ typed = 0
    /\ awaiting = {}
    /\ missed = FALSE
    /\ formOrigin = "none"
    /\ notified = FALSE
    /\ creates = 0

\* The session and the live query: the page from its load on, with the
\* dashboard creating and deleting records.
LiveInit == SearchMounted /\ ShellInit /\ DashUnmounted /\ StoreInit /\ LoginInit

LiveNext ==
    \/ AuthStateChanged
    \/ SignIn
    \/ Logout
    \/ SessionChangesElsewhere
    \/ HandleMapClick
    \/ HandleFormSubmit
    \/ WriteSettles
    \/ SnapshotDelivered
    \/ HandleDelete

LiveSpec == LiveInit /\ [][LiveNext]_vars

\* The dashboard of one session: a signed-in account's dashboard right after
\* it mounted, and every handler of the dashboard.
DashMountedFor(u) ==
    /\ authUser = u
    /\ authNotify = FALSE
    /\ user = u
    /\ appLoading = FALSE
    /\ inst = 1
    /\ markers = DemoMarkers(1)
    /\ showForm = FALSE
    /\ formLatLng = NoPosition
    /\ formData = EmptyForm
    /\ search = ""
    /\ editMode = FALSE
    /\ editingId = Null
    /\ selectedMarkerIdx = 0
    /\ popupTimers = {}
    /\ openPopup = 0
    /\ mapView = InitialView
    /\ listeners = Subscribe({}, u, 1)
    /\ store = InitialStore
    /\ nextDocId = 2
    /\ pendingWrites = <<>>
    /\ clock = 1
    /\ typed = 0
    /\ awaiting = {}
    /\ missed = FALSE
    /\ formOrigin = "none"
    /\ notified = TRUE
    /\ creates = 0
    /\ LoginInit

\* The login page, from the moment App shows it.
LoginPageInit ==
    /\ SearchMounted
    /\ DashUnmounted
    /\ store = InitialStore
    /\ nextDocId = 2
    /\ listeners = {}
    /\ pendingWrites = <<>>
    /\ clock = 1
    /\ typed = 0
    /\ awaiting = {}
    /\ missed = FALSE
    /\ formOrigin = "none"
    /\ notified = TRUE
    /\ creates = 0
    /\ LoginInit
    /\ authUser = Null
    /\ authNotify = FALSE
    /\ user = Null
    /\ appLoading = FALSE

LoginNext ==
    \/ SetEmail
    \/ SetPassword
    \/ SetConfirmPassword
    \/ SetFullName
    \/ HandleTabChange
    \/ HandleLogin
    \/ HandleRegister
    \/ AuthCallSettles
    \/ AuthStateChanged
    \/ Logout

LoginSpec == LoginPageInit /\ [][LoginNext]_vars

SearchInit == SearchMounted /\ DashMountedFor(ANN)

SearchNext ==
    \/ HandleInputChange
    \/ DebounceFire
    \/ ChangeProvider
    \/ LookupSettles
    \/ HandleSelect
    \/ HandleClear
    \/ ToggleExpand
    \/ ToggleSettings

\* The timeout of useDebounce expires and every fetch settles.
SearchFairSpec ==
    /\ SearchInit
    /\ [][SearchNext]_vars
    /\ WF_vars(DebounceFire)
    /\ WF_vars(LookupSettles)

SearchSpec == SearchInit /\ [][SearchNext]_vars

DashInit == SearchMounted /\ \E u \in Accounts : DashMountedFor(u)

DashNext ==
    \/ HandleMapClick
    \/ HandleFormChange
    \/ HandleFormSubmit
    \/ WriteSettles
    \/ SnapshotDelivered
    \/ HandleEdit
    \/ HandleDelete
    \/ HandleSidebarSelect
    \/ PopupTimerFires
    \/ CloseForm
    \/ SetSearch

DashSpec == DashInit /\ [][DashNext]_vars

\* The search controller and the live query of one dashboard, the
\* administrator's, with the edit form: the two flows side by side.
FrameInit == SearchMounted /\ DashMountedFor(ADMIN_EMAIL)

FrameNext ==
    \/ SearchNext
    \/ SnapshotDelivered
    \/ HandleEdit

FrameSpec == FrameInit /\ [][FrameNext]_vars

\* The form of one dashboard, the administrator's, over several submissions:
\* map clicks, edits, cancels, saves and the store's answers and pushes.
FormInit == SearchMounted /\ DashMountedFor(ADMIN_EMAIL)

FormNext ==
    \/ HandleMapClick
    \/ HandleEdit
    \/ CloseForm
    \/ FormSubmitBy(MaxFormClock, MaxFormPending)
    \/ WriteSettles
    \/ SnapshotDelivered

FormSpec == FormInit /\ [][FormNext]_vars

(***************************************************************************)
(* Claims about the search controller (checked under SearchSpec).          *)
(***************************************************************************)
\* A step in which lookup l, already superseded by a later lookup, settles.
StaleSettles(l) ==
    /\ l \in inflight
    /\ l.id # abortControllerRef
    /\ inflight' = inflight \ {l}

\* C1: when a lookup L1 settles (with results, with none, or with a failure)
\* after a later lookup L2 was issued, the suggestions, the error and the
\* loading flag are left as they were.
C1_StaleLookupChangesNothing ==
    [][\A l \in inflight :
          StaleSettles(l) => UNCHANGED <<suggestions, error, isLoading>>]_vars

\* C2: between two idle moments of the controller at most one lookup's result
\* is applied, and once no lookup is outstanding a displayed lookup result is
\* that of the most recently issued lookup.
C2_OnlyLatestLookupApplied ==
    /\ burstApplied <= 1
    /\ (inflight = {} /\ lastWriter # 0) => lastWriter = abortControllerRef

\* C3: every lookup issued carries a text of at least 3 characters, and a run
\* of the search effect on a shorter debounced text (the empty one included)
\* empties the suggestion list and issues nothing.
C3_NoLookupBelowMinLength ==
    [][/\ \A l \in inflight' \ inflight : Len(l.q) >= 3
       /\ ((debouncedQuery' # debouncedQuery \/ apiProvider' # apiProvider)
            /\ Len(debouncedQuery') < 3)
          => (suggestions' = <<>> /\ inflight' = inflight /\ nextId' = nextId)]_vars

\* C3 witness: after at least one lookup, a short non-empty text has settled
\* and the effect has run on it.
C3_Witness ==
    /\ debouncedQuery = "ab"
    /\ nextId > 1
    /\ suggestions = <<>>

\* C4: whenever the text of the input field is shorter than 3 characters the
\* suggestion list is empty.
C4_ShortInputHasNoSuggestions ==
    Len(query) < 3 => suggestions = <<>>

\* The state the clear action must leave.
Cleared ==
    /\ query = ""
    /\ suggestions = <<>>
    /\ selectedPosition = NoPosition
    /\ selectedName = ""
    /\ error = ""
    /\ ~isExpanded

\* C10: a clear, from any state, leaves the query empty, the suggestion list
\* empty, no selected location or name, no error and the panel collapsed.
C10_ClearResetsEverything ==
    [][HandleClear => Cleared']_vars

\* C10 witness: the controller cleared while a lookup for a settled text of
\* 3 or more characters was outstanding, a selection having been made before.
C10_Witness ==
    /\ Cleared
    /\ timer
    /\ Len(debouncedQuery) >= 3
    /\ inflight # {}
    /\ lastWriter = 0
    /\ burstApplied >= 1

\* C11: selecting a row of the suggestion list empties the list, collapses
\* the panel, clears the error, and makes the selection that row's coordinate
\* (lat, lon) and display name.
C11_SelectTakesTheRow ==
    [][HandleSelect =>
          /\ suggestions' = <<>>
          /\ ~isExpanded'
          /\ error' = ""
          /\ \E i \in 1..Len(suggestions) :
                /\ selectedPosition' = <<suggestions[i].lat, suggestions[i].lon>>
                /\ selectedName' = suggestions[i].display_name
                /\ query' = suggestions[i].display_name]_vars

\* The second of two rows was selected.
C11_Witness ==
    /\ selectedName = "Rome"
    /\ selectedPosition = <<41, 12>>
    /\ query = "Rome"
    /\ suggestions = <<>>
    /\ ~isExpanded
    /\ error = ""

\* A lookup issued in a step in which the provider stays: one from typing.
IssuedFromTyping(l) ==
    /\ l \in inflight' \ inflight
    /\ apiProvider' = apiProvider

\* C13: a lookup is issued from typing only in a step in which the pending
\* timeout expires, and then for the text in the input at that time, never for
\* a text that was replaced within the window; and a text of at least 3
\* characters that stays in the input is eventually looked up, unless the
\* list already is the answer to a lookup for it (checked under
\* SearchFairSpec; the last part is limited to runs with lookups left).
C13_DebouncedLookup ==
    /\ [][\A l \in inflight' \ inflight :
            IssuedFromTyping(l) => (timer /\ ~timer' /\ l.q = query)]_vars
    /\ \A t \in Texts :
          Len(t) >= 3 =>
             [](query = t /\ served # t
                  => <>(query # t \/ served = t \/ nextId > MaxLookups))

\* Lookup l settles in this step.
Settles(l) ==
    /\ l \in inflight
    /\ inflight' = inflight \ {l}

\* C14: when the only outstanding lookup resolves successfully, the
\* suggestions become the returned list, and the error is 'No results found'
\* if the list is empty and empty otherwise.
C14_SuccessShowsTheReturnedList ==
    [][\A l \in inflight :
          (inflight = {l} /\ Settles(l) /\ lastOutcome'.kind = "ok")
             => LET results == ApiSearch(l.provider, lastOutcome'.data) IN
                /\ suggestions' = results
                /\ error' = (IF results = <<>> THEN NO_RESULTS ELSE "")]_vars

C16_AtMostFiveSuggestions == Len(suggestions) <= 5

\* C23: from a clear until the user next changes the input text, the
\* suggestion list and the error are empty, whether or not a lookup was
\* outstanding when the clear was pressed.
C23_ClearedStaysIdle ==
    idleSince = "clear" => (suggestions = <<>> /\ error = "")

\* C24: from the selection of a suggestion until the user next changes the
\* input text, no lookup is issued and the suggestion list is empty.
C24_SelectedStaysIdle ==
    [][idleSince' = "select" =>
          /\ suggestions' = <<>>
          /\ idleSince = "select" => nextId' = nextId]_vars

\* C29: a change of the provider with a debounced text of at least 3
\* characters issues, in the same step and whatever the state of the debounce
\* timeout, one lookup for the debounced text to the new provider; with a
\* shorter debounced text it issues none.
C29_ProviderChangeLooksUpAtOnce ==
    [][apiProvider' # apiProvider =>
          IF Len(debouncedQuery) >= 3
          THEN /\ \E l \in inflight' :
                     /\ inflight' = inflight \cup {l}
                     /\ l \notin inflight
                     /\ l.q = debouncedQuery
                     /\ l.provider = apiProvider'
               /\ nextId' = nextId + 1
               /\ UNCHANGED <<timer, debouncedQuery, query>>
          ELSE inflight' = inflight /\ nextId' = nextId]_vars

\* The provider was changed while newer text waited for its timeout: the
\* lookup sent to Nominatim is for the debounced text.
C29_Witness ==
    /\ apiProvider = "nominatim"
    /\ timer
    /\ query = "abcd"
    /\ debouncedQuery = "abc"
    /\ \E l \in inflight :
          l.q = "abc" /\ l.provider = "nominatim" /\ l.id = abortControllerRef

\* C30: in every state the loading flag is true exactly when at least one
\* lookup is outstanding.
C30_LoadingIffLookupOutstanding == isLoading <=> inflight # {}

\* C31: in every state, a non-empty suggestion list and a non-empty error
\* message do not hold together.
C31_NeverResultsAndError == ~(suggestions # <<>> /\ error # "")

\* C32: whenever the suggestion list is non-empty and no lookup is
\* outstanding, the list is the answer to a lookup for the present debounced
\* text, sent to the provider that is selected (and named in the caption).
C32_ShownResultsAreForDebouncedText ==
    (suggestions # <<>> /\ inflight = {}) =>
        (shownFor.q = debouncedQuery /\ shownFor.provider = apiProvider)

\* C33: every lookup is issued for the text that is in the input field when
\* it is issued.
C33_LookupIsForTheInputText ==
    [][\A l \in inflight' \ inflight : l.q = query]_vars

(***************************************************************************)
(* Claims about the live query (checked under LiveSpec).                   *)
(***************************************************************************)
\* The list is ordered by descending timestamp.
DescendingByTimestamp(ms) ==
    \A i, j \in 1..Len(ms) : i < j => ms[i].timestamp >= ms[j].timestamp

\* C5: in every state of a mounted dashboard, a user other than the
\* administrator has in the local list only records whose salesperson is that
\* user's email; the administrator's list is ordered by descending timestamp
\* and, once the live query has delivered the current result, holds every
\* record of the store.
C5_OnlyOwnRecordsUnlessAdmin ==
    Mounted =>
        IF IsAdmin(user)
        THEN /\ DescendingByTimestamp(markers)
             /\ \A l \in listeners :
                   (l.delivered /\ l.last = QueryDocs(store, user))
                      => {markers[k].id : k \in 1..Len(markers)}
                            = {d.id : d \in store}
        ELSE \A k \in 1..Len(markers) : markers[k].salesperson = user

\* Listener l received a push in this step; l2 is the listener afterwards.
Pushed(l, l2) ==
    /\ l \in listeners
    /\ l2 \in listeners'
    /\ l2.email = l.email
    /\ l2.inst = l.inst
    /\ l2.delivered
    /\ ~l.delivered \/ l2.last # l.last

\* ms is docs, document by document, each with its identifier.
IsProjection(ms, docs) ==
    /\ Len(ms) = Len(docs)
    /\ \A k \in 1..Len(docs) :
          /\ ms[k].id = docs[k].id
          /\ ms[k].site_name = docs[k].data.site_name
          /\ ms[k].description = docs[k].data.description
          /\ ms[k].salesperson = docs[k].data.salesperson
          /\ ms[k].stage = docs[k].data.stage
          /\ ms[k].lat = docs[k].data.lat
          /\ ms[k].lng = docs[k].data.lng
          /\ ms[k].timestamp = docs[k].data.timestamp

\* C6: right after the mounted dashboard handled a push, the local list is
\* exactly the snapshot's documents, each with its identifier, in the
\* snapshot's order; nothing of the previous list is kept.
C6_SnapshotReplacesList ==
    [][\A l \in listeners : \A l2 \in listeners' :
          (Pushed(l, l2) /\ Mounted /\ l.inst = inst)
             => IsProjection(markers', l2.last)]_vars

\* The six demonstration records were replaced by a snapshot of the two
\* documents of the store.
C6_Witness ==
    /\ Mounted
    /\ Len(markers) = 2
    /\ \E l \in listeners : l.delivered /\ IsProjection(markers, l.last)

\* C9: a subscription exists only for the mounted dashboard and its present
\* user, and there is at most one: logout and a change of the email unsubscribe
\* the one there was, so no push reaches a dashboard that was torn down.
C9_OneSubscriptionWhileMounted ==
    /\ Cardinality(listeners) <= 1
    /\ Mounted => \E l \in listeners : l.email = user /\ l.inst = inst
    /\ ~Mounted => listeners = {}

\* A dashboard was mounted and torn down, and the store has changed since its
\* last snapshot.
C9_Witness ==
    /\ ~Mounted
    /\ inst >= 1
    /\ listeners = {}
    /\ store # InitialStore

\* A notification that no user is signed in reaches App in this step.
SignOutNotified ==
    /\ authNotify
    /\ ~authNotify'
    /\ authUser = Null
    /\ notified'

\* A dashboard exists: it holds records or a subscription.
DashboardUp == markers # <<>> \/ listeners # {}

\* C28: the dashboard is shown exactly when a session notification has
\* arrived and a user is set, the login page exactly when one has arrived and
\* no user is set, and neither before the first one; and when a notification
\* of a sign-out arrives the login page is shown and the dashboard and its
\* subscription are gone.
C28_ShellFollowsTheSession ==
    /\ [](/\ Shown = "dashboard" <=> (notified /\ user # Null)
          /\ Shown = "login" <=> (notified /\ user = Null)
          /\ ~notified => (Shown = "loading" /\ ~DashboardUp)
          /\ DashboardUp <=> Shown = "dashboard")
    /\ [][SignOutNotified =>
             /\ Shown' = "login"
             /\ user' = Null
             /\ ~DashboardUp']_vars

\* A dashboard was shown, the user signed out, and the notification arrived.
C28_Witness ==
    /\ notified
    /\ inst >= 1
    /\ authUser = Null
    /\ ~authNotify
    /\ Shown = "login"
    /\ ~DashboardUp

(***************************************************************************)
(* Claims about the dashboard's handlers (checked under DashSpec).         *)
(***************************************************************************)
\* C7: the local list changes only in a step that handles a push; a form
\* submission, a delete, their success or failure, a sidebar selection, the
\* filter input and a map click leave it as it was.
C7_OnlySnapshotChangesList ==
    [][markers' # markers =>
          /\ \E l \in listeners : \E l2 \in listeners' : Pushed(l, l2)
          /\ UNCHANGED <<pendingWrites, store, search, selectedMarkerIdx,
                         showForm, formLatLng, formData>>]_vars

\* A create, an edit or a delete was applied by the store, and the list still
\* is the six demonstration records.
C7_Witness ==
    /\ store # InitialStore
    /\ markers = DemoMarkers(1)
    /\ selectedMarkerIdx # 0
    /\ search # ""

\* C8: whatever the user and the submitted values, the first snapshot the
\* dashboard handles after a create succeeded shows a record with the
\* submitted fields, an identifier of the store and a timestamp.
C8_CreatedRecordInNextSnapshot == ~missed

\* Two characters are the same letter, whatever their case.
SameLetter(a, b) ==
    \/ a = b
    \/ a \in DOMAIN LowerOf /\ LowerOf[a] = b
    \/ b \in DOMAIN LowerOf /\ LowerOf[b] = a

\* text occurs in str as a contiguous run, letter case ignored.
ContainsIgnoringCase(str, text) ==
    \E off \in 0..(Len(Chars(str)) - Len(Chars(text))) :
        \A i \in 1..Len(Chars(text)) :
            SameLetter(Chars(str)[off + i], Chars(text)[i])

\* The positions of the list whose record has text in its name or its stage.
Kept(ms, text) ==
    {i \in 1..Len(ms) : \/ ContainsIgnoringCase(ms[i].site_name, text)
                         \/ ContainsIgnoringCase(ms[i].stage, text)}

\* C12: for the record list and the filter text at hand, the sidebar's list is
\* the records whose name or stage contains the text, letter case ignored, in
\* the order of the record list; with an empty text it is the whole list.
C12_FilteredListIsTheMatchingSublist ==
    LET f == FilteredMarkers(markers, search)
        keep == Kept(markers, search)
    IN /\ Len(f) = Cardinality(keep)
       /\ \A j \in 1..Len(f) :
             \E i \in keep : /\ Cardinality({k \in keep : k <= i}) = j
                              /\ f[j] = markers[i]
       /\ search = "" => f = markers

\* The filter IN on the six demonstration records keeps four: one by its name
\* only, two by their stage only, one by both.
C12_Witness ==
    /\ search = "IN"
    /\ markers = DemoMarkers(1)
    /\ Kept(markers, search) = {1, 2, 3, 5}
    /\ Len(FilteredMarkers(markers, search)) = 4

\* The form is submitted in this step: new Date() is read.
Submits == clock' # clock

\* C17: a submission of the form issues exactly one write: an update of the
\* record named by the editing target when the edit mode is on and the target
\* is a non-empty identifier, and a create otherwise.
C17_SubmitRoutesUpdateOrCreate ==
    [][Submits =>
          \E w \in {pendingWrites'[k] : k \in 1..Len(pendingWrites')} :
             /\ pendingWrites' = Append(pendingWrites, w)
             /\ IF editMode /\ editingId \notin {Null, Undefined, ""}
                THEN w.op = "update" /\ w.id = editingId
                ELSE w.op = "add"]_vars

\* The edit form of a demonstration record, which has no identifier, was
\* submitted: a create was issued.
C17_Witness ==
    /\ editMode
    /\ editingId = Undefined
    /\ Len(pendingWrites) = 1
    /\ pendingWrites[1].op = "add"
    /\ pendingWrites[1].edit

\* The dialog is open only with a coordinate.
FormHasCoordinate == showForm => formLatLng # NoPosition

\* A delete is handed to the store in this step.
DeleteIssued ==
    \E w \in {pendingWrites'[k] : k \in 1..Len(pendingWrites')} :
        /\ pendingWrites' = Append(pendingWrites, w)
        /\ w.op = "delete"

\* C18: a delete is handed to the store only in a step of handleDelete in
\* which the user confirmed; a step in which the user declined calls nothing
\* and changes nothing.
C18_DeleteOnlyAfterConfirmation ==
    [][/\ DeleteIssued => \E k \in Rows : HandleDeleteRow(k, TRUE)
       /\ \A k \in Rows : HandleDeleteRow(k, FALSE) => UNCHANGED vars]_vars

\* The user confirmed the delete of the store's record.
C18_Witness ==
    /\ Len(pendingWrites) = 1
    /\ pendingWrites[1].op = "delete"
    /\ pendingWrites[1].id = "d1"
    /\ store = InitialStore

\* A write settles in this step and the store stays as it was: the write
\* failed, or it was the delete of a record that was gone already.
WriteFailed ==
    /\ Len(pendingWrites') < Len(pendingWrites)
    /\ store' = store

\* C20: when a create, an update or a delete fails, the dialog, its field
\* values, its coordinate, the edit mode, the editing target and the local
\* record list are left as they were.
C20_FailedWriteChangesNothing ==
    [][WriteFailed =>
          UNCHANGED <<showForm, formData, formLatLng, editMode, editingId,
                      markers>>]_vars

\* The create of a record named Zenith failed; the dialog is still open with
\* what was typed.
C20_Witness ==
    /\ clock = 2
    /\ pendingWrites = <<>>
    /\ store = InitialStore
    /\ showForm
    /\ ~editMode
    /\ formLatLng # NoPosition
    /\ formData.site_name = "Zenith"

\* The four stages, as a set.
StageSet == {STAGES[i] : i \in 1..Len(STAGES)}

\* Every record the dashboard holds, and every document of the store, has one
\* of the four stages.
DeliveredStagesValid ==
    /\ \A k \in 1..Len(markers) : markers[k].stage \in StageSet
    /\ \A d \in store : d.data.stage \in StageSet

\* C22: as long as every record the store delivers has one of the four
\* stages, every create and every update the form hands to the store carries
\* one of the four stages; and the form a click on the map opens starts with
\* the stage Pipeline.
C22_WrittenStageIsOneOfFour ==
    [][/\ DeliveredStagesValid =>
             \A k \in 1..Len(pendingWrites') :
                pendingWrites'[k].op \in {"add", "update"}
                   => pendingWrites'[k].data.stage \in
                         {"Pipeline", "In Proposal", "POC Stage", "Current Client"}
       /\ HandleMapClick => formData'.stage = "Pipeline"]_vars

\* The stage of the store's record was changed in the edit form and the
\* update handed to the store.
C22_Witness ==
    /\ DeliveredStagesValid
    /\ Len(pendingWrites) = 1
    /\ pendingWrites[1].op = "update"
    /\ pendingWrites[1].id = "d1"
    /\ pendingWrites[1].data.stage = "Current Client"
    /\ \E d \in store : d.id = "d1" /\ d.data.stage = "In Proposal"

\* The timeout t expires in this step and opens a popup.
OpensPopup(t) ==
    /\ t \in popupTimers
    /\ popupTimers' = popupTimers \ {t}
    /\ 1 <= t.idx /\ t.idx <= Len(markers)

\* C25: the popup that opens after a sidebar row was clicked is the popup of
\* the record of that row, also when a push replaced the record list between
\* the click and the end of the delay.
C25_PopupIsTheSelectedRecord ==
    [][\A t \in popupTimers :
          OpensPopup(t) => markers[t.idx] = t.marker]_vars

\* C26: the submission of a form that a click on the map opened hands a
\* create to the store, with the coordinate of the click, and never an update,
\* whatever edits, cancels and closes of the dialog came before the click.
C26_ClickedFormCreates ==
    [][(Submits /\ formOrigin = "click") =>
          \E w \in {pendingWrites'[k] : k \in 1..Len(pendingWrites')} :
             /\ pendingWrites' = Append(pendingWrites, w)
             /\ w.op = "add"
             /\ <<w.data.lat, w.data.lng>> = formLatLng]_vars

(***************************************************************************)
(* Claims about the login page (checked under LoginSpec).                  *)
(***************************************************************************)
\* What the registration form holds does not pass handleRegister's tests.
InvalidRegistration ==
    \/ ~EndsWith(loginEmail, "@seewise.ai")
    \/ password # confirmPassword
    \/ Len(password) < 6

\* C19: a registration submit with an email that does not end with
\* '@seewise.ai', with a password that differs from its confirmation, or with a
\* password of fewer than 6 characters calls the identity provider for
\* nothing, does not run onLogin, and leaves the loading flag false.
C19_InvalidRegistrationCallsNothing ==
    [][(HandleRegister /\ InvalidRegistration) =>
          /\ authCall' = NoCall
          /\ UNCHANGED <<authUser, authNotify, user>>
          /\ ~loading']_vars

\* A registration with a password of five characters was refused.
C19_Witness ==
    /\ mode = "register"
    /\ alertMsg = MSG_SHORT
    /\ loginEmail = ANN
    /\ password = "abc12"
    /\ confirmPassword = "abc12"
    /\ authCall = NoCall
    /\ ~loading
    /\ user = Null

(***************************************************************************)
(* Claims about the two flows side by side (checked under FrameSpec).      *)
(***************************************************************************)
\* The state of the form and of the edit mode.
formState == <<showForm, formLatLng, formData, editMode, editingId>>

\* The state of the search controller the user sees, and its bookkeeping.
searchState == <<query, suggestions, selectedPosition, selectedName, error,
                 isExpanded, isLoading, apiProvider, showSettings,
                 debouncedQuery, timer, inflight, abortControllerRef>>

\* C21: a step that handles a push changes, of the components' state, the
\* record list only: the query, the suggestions, the selection, the error, the
\* panel and the loading flag stay; and a step that changes anything of the
\* search controller (typing, the debounce, a lookup settling, a select, a
\* clear, a change of provider) changes neither the record list nor the form
\* and edit state.
C21_PushAndSearchAreDisjoint ==
    [][/\ (\E l \in listeners : \E l2 \in listeners' : Pushed(l, l2))
            => UNCHANGED <<searchState, formState, search>>
       /\ searchState' # searchState => UNCHANGED <<markers, formState>>]_vars

\* A push was handled and a lookup answered while the edit form is open.
C21_Witness ==
    /\ Len(markers) = 1
    /\ markers[1].id = "d1"
    /\ suggestions # <<>>
    /\ selectedName = ""
    /\ inflight # {}
    /\ showForm
    /\ editMode
    /\ editingId = "d1"

(***************************************************************************)
(* Claims about successive submissions (checked under FormSpec).           *)
(***************************************************************************)
\* A create or an update is acknowledged by the store in this step.
SubmissionSucceeds ==
    \E i \in 1..Len(pendingWrites) :
        /\ pendingWrites' = RemoveAt(pendingWrites, i)
        /\ pendingWrites[i].op \in {"add", "update"}
        /\ store' # store

\* C27: when a submission succeeds the dialog is closed and the edit mode, the
\* editing target, the form's coordinate and its fields are reset; the edit
\* mode is switched on by an edit action only; and a submission made with the
\* edit mode off hands a create to the store.
C27_SuccessResetsTheForm ==
    [][/\ SubmissionSucceeds =>
             /\ ~showForm'
             /\ ~editMode'
             /\ editingId' = Null
             /\ formLatLng' = NoPosition
             /\ formData' = [site_name |-> "", description |-> "",
                             salesperson |-> "", stage |-> "Pipeline"]
       /\ (~editMode /\ editMode') => (formOrigin' = "edit" /\ showForm')
       /\ (Submits /\ ~editMode) =>
             \E w \in {pendingWrites'[k] : k \in 1..Len(pendingWrites')} :
                /\ pendingWrites' = Append(pendingWrites, w)
                /\ w.op = "add"]_vars

\* The edit of the store's record was saved, and the form a map click opened
\* afterwards was submitted: a create.
C27_Witness ==
    /\ \E d \in store : d.id = "d1" /\ d.data.timestamp = 2
    /\ clock = 3
    /\ formOrigin = "click"
    /\ ~editMode
    /\ Len(pendingWrites) = 1
    /\ pendingWrites[1].op = "add"
    /\ pendingWrites[1].data.timestamp = 3

\* C34: the form a click on the map opened hands at most one create to the
\* store until it is opened again, also when Save is pressed again while the
\* first write is awaited.
C34_OneCreatePerOpening == formOrigin = "click" => creates <= 1


\* C35: the write that submitting the edit form of a stored record hands to
\* the store keeps the record's identifier, coordinate and creation
\* timestamp, and with nothing typed in the form it carries the stored record
\* unchanged, so the record keeps its place in the descending-timestamp order.
C35_EditKeepsIdentityAndTime ==
    [][(Submits /\ formOrigin = "edit" /\ \E d \in store : d.id = editingId) =>
          \E w \in {pendingWrites'[k] : k \in 1..Len(pendingWrites')} :
             /\ pendingWrites' = Append(pendingWrites, w)
             /\ w.op = "update"
             /\ w.id = editingId
             /\ \A d \in store :
                   d.id = w.id =>
                      /\ <<w.data.lat, w.data.lng>> = <<d.data.lat, d.data.lng>>
                      /\ w.data.timestamp = d.data.timestamp
                      /\ (typed = 0 => w.data = d.data)]_vars

====